---- MODULE Spec2Model ----
(***************************************************************************)
(* AppendList (danieldulaney/appendlist): a list of fixed-capacity chunks  *)
(* that can be pushed to through a shared handle while references to its   *)
(* elements are held.                                                      *)
(*                                                                         *)
(* Memory is modelled explicitly: every Vec has a buffer address `ptr`, a  *)
(* capacity `cap` and its elements `elems`; a reference &T is the pair     *)
(* (buffer address, offset in the buffer).  The allocator hands out fresh  *)
(* addresses and remembers the released ones.                              *)
(***************************************************************************)
EXTENDS Integers, Sequences, FiniteSets, TLC

(***************************************************************************)
(* Program constants (src/src/common.rs)                                   *)
(***************************************************************************)
FIRST_CHUNK_SIZE == 16

BITS_PER_BYTE == 8

\* std::mem::size_of::<usize>() on the 16-bit targets of rustc
SizeOfUsize == 2

Bits == BITS_PER_BYTE * SizeOfUsize

Word == 2 ^ Bits

\* usize::MAX
MaxWord == Word - 1

Usize == 0 .. MaxWord

(***************************************************************************)
(* Bounds of the model                                                     *)
(***************************************************************************)
\* longest list of specification Spec
MaxLen == 18

\* the caller's items repeat with this period
Period == 3

\* the items a caller pushes
Values == {1, 2}

\* longest list of specification SpecIter
MaxIterLen == 2

\* largest cursor position of an iterator in specification SpecIter
MaxIndex == 4

\* longest list of specification SpecEq
MaxEqLen == 3

\* longest list of specification SpecAll
MaxAllLen == 1

\* the addresses the allocator hands out in specification SpecAlloc
MaxHeap == 10

\* longest list of specification SpecRace
MaxRaceLen == 17

\* longest list of specification SpecLong: five chunks, so that the chunk
\* directory grows a second time
LongLen == 241

(***************************************************************************)
(* usize arithmetic.  A build without overflow checks wraps; a build with  *)
(* overflow checks panics where the *_overflows predicate holds.           *)
(***************************************************************************)
wrapping_add(a, b) == (a + b) % Word

wrapping_sub(a, b) == (a - b + Word) % Word

\* a << n : bits shifted out are dropped, the shift amount is masked
wrapping_shl(a, n) == (a * (2 ^ (n % Bits))) % Word

RECURSIVE bit_length(_)
bit_length(x) == IF x = 0 THEN 0 ELSE 1 + bit_length(x \div 2)

leading_zeros(x) == Bits - bit_length(x)

floor_log2(x) == wrapping_sub(wrapping_sub(Bits, leading_zeros(x)), 1)

floor_log2_overflows(x) == Bits - leading_zeros(x) < 1

\* mutant of chunk_size: every chunk has the size of the first one
chunk_size_fixed(chunk_id) == FIRST_CHUNK_SIZE

chunk_size(chunk_id) == wrapping_shl(FIRST_CHUNK_SIZE, chunk_id)

chunk_size_overflows(chunk_id) == chunk_id >= Bits

\* mutant of chunk_start: the first chunk's size is not subtracted
chunk_start_not_shifted(chunk_id) == chunk_size(chunk_id)

chunk_start(chunk_id) == wrapping_sub(chunk_size(chunk_id), FIRST_CHUNK_SIZE)

chunk_start_overflows(chunk_id) ==
    \/ chunk_size_overflows(chunk_id)
    \/ chunk_size(chunk_id) < FIRST_CHUNK_SIZE

\* mutant of index_chunk: the first chunk's size is not added to the index
index_chunk_unshifted(index) ==
    wrapping_sub(floor_log2(index), floor_log2(FIRST_CHUNK_SIZE))

\* mutant of index_chunk: chunks of FIRST_CHUNK_SIZE indices each
index_chunk_by_division(index) == index \div FIRST_CHUNK_SIZE

index_chunk(index) ==
    wrapping_sub(floor_log2(wrapping_add(index, FIRST_CHUNK_SIZE)),
                 floor_log2(FIRST_CHUNK_SIZE))

index_chunk_overflows(index) ==
    \/ index + FIRST_CHUNK_SIZE > MaxWord
    \/ floor_log2_overflows(wrapping_add(index, FIRST_CHUNK_SIZE))
    \/ floor_log2_overflows(FIRST_CHUNK_SIZE)
    \/ floor_log2(wrapping_add(index, FIRST_CHUNK_SIZE)) < floor_log2(FIRST_CHUNK_SIZE)

(***************************************************************************)
(* std::vec::Vec as the list uses it                                       *)
(***************************************************************************)
\* the dangling pointer of a Vec that owns no buffer
NoAlloc == 0

Max(a, b) == IF a >= b THEN a ELSE b

\* Vec::new(): no buffer is allocated
Vec_new == [ptr |-> NoAlloc, cap |-> 0, elems |-> <<>>]

\* mutant of Vec_with_capacity: the buffer is one slot short
Vec_with_capacity_one_short(n, h) ==
    IF n = 0
    THEN [vec |-> Vec_new, heap |-> h]
    ELSE [vec  |-> [ptr |-> h.next, cap |-> n - 1, elems |-> <<>>],
          heap |-> [h EXCEPT !.next = @ + 1]]

\* Vec::with_capacity(n) with allocator state h: one buffer of exactly n
\* slots, which is what std allocates for a sized element type
Vec_with_capacity(n, h) ==
    IF n = 0
    THEN [vec |-> Vec_new, heap |-> h]
    ELSE [vec  |-> [ptr |-> h.next, cap |-> n, elems |-> <<>>],
          heap |-> [h EXCEPT !.next = @ + 1]]

\* the capacity Vec::push grows a full buffer to
grow_cap(cap) == Max(Max(2 * cap, cap + 1), 4)

\* Vec::push(item): the possible outcomes.  With a free slot the buffer is
\* written in place.  A full buffer is reallocated: the allocator either
\* extends it in place or moves it to a fresh address and releases the old one.
Vec_push(v, item, h) ==
    IF Len(v.elems) < v.cap
    THEN { [vec |-> [v EXCEPT !.elems = Append(@, item)], heap |-> h] }
    ELSE { [vec  |-> [ptr |-> h.next, cap |-> grow_cap(v.cap),
                      elems |-> Append(v.elems, item)],
            heap |-> [next  |-> h.next + 1,
                      freed |-> h.freed \cup ({v.ptr} \ {NoAlloc})]] }
         \cup
         (IF v.ptr = NoAlloc THEN {}
          ELSE { [vec  |-> [v EXCEPT !.cap = grow_cap(v.cap),
                                     !.elems = Append(@, item)],
                  heap |-> h] })

\* the reference to the last element of a non-empty Vec
Vec_last(v) == [ptr |-> v.ptr, off |-> Len(v.elems) - 1]

(***************************************************************************)
(* State                                                                   *)
(***************************************************************************)
VARIABLES
    chunks,   \* AppendList.chunks : Vec<Vec<T>>
    len,      \* AppendList.len
    heap,     \* allocator: next fresh address, released addresses
    source,   \* the items the caller pushes, repeated with period Period
    pushed,   \* history: the items the pushes stored, in order
    refs,     \* the references push returned, in order, all kept by the caller
    iters,    \* the iterators of the caller
    ret,      \* the outcome of the last call
    arith,    \* the evaluation of the chunk arithmetic (SpecArith)
    other,    \* a second list of the caller, with its history and iterators
    race      \* the pushes in progress, statement by statement (SpecRace)

vars == <<chunks, len, heap, source, pushed, refs, iters, ret, arith, other, race>>

IterIds == {"i1", "i2"}

None == [tag |-> "None"]

Panic == [tag |-> "Panic"]

Some(ref, val) == [tag |-> "Some", ref |-> ref, val |-> val]

NoRet == [op |-> "new", arg |-> 0, it |-> "-", res |-> None]

NoIter == [live |-> FALSE, index |-> 0, created_len |-> 0, seen |-> <<>>]

ArithIdle == [fn |-> "idle", arg |-> 0, done |-> FALSE, chunk_id |-> 0,
              start |-> 0, size |-> 0, next_start |-> 0, panics |-> FALSE]

\* the callers of push: a push in progress is at one of its statements, with
\* its local variables
Procs == {"p1", "p2"}

ProcIdle ==
    [pc |-> "idle", new_index |-> 0, chunk_id |-> 0, item |-> 0,
     item_ptr |-> [ptr |-> NoAlloc, off |-> 0]]

\* no push in progress; `overlapped` is history: a push has begun while
\* another was in progress
RaceIdle == [procs |-> [p \in Procs |-> ProcIdle], overlapped |-> FALSE]

\* a second, new list whose items will come from src
OtherNew(src) ==
    [chunks |-> Vec_new, len |-> 0, pushed |-> <<>>, refs |-> <<>>,
     source |-> src, iters |-> [id \in IterIds |-> NoIter]]

\* AppendList::new()
new ==
    /\ chunks = Vec_new
    /\ len = 0

Init ==
    /\ new
    /\ heap = [next |-> 1, freed |-> {}]
    /\ source \in [1 .. Period -> Values]
    /\ pushed = <<>>
    /\ refs = <<>>
    /\ iters = [id \in IterIds |-> NoIter]
    /\ ret = NoRet
    /\ arith = ArithIdle
    /\ other = OtherNew([i \in 1 .. Period |-> 1])
    /\ race = RaceIdle

\* self.chunks()
chunks_slice == chunks.elems

\* the item of the caller's next push
NextItem == source[(Len(pushed) % Period) + 1]

(***************************************************************************)
(* AppendList::push                                                        *)
(***************************************************************************)
\* mutant of push_existing: the element pointer is taken before the insertion
push_existing_stale_ptr(item, chunk_id) ==
    \E o \in Vec_push(chunks.elems[chunk_id + 1], item, heap) :
        /\ chunks' = [chunks EXCEPT !.elems[chunk_id + 1] = o.vec]
        /\ heap' = o.heap
        /\ refs' = Append(refs, Vec_last(chunks.elems[chunk_id + 1]))

\* mutant of push_existing: the item goes into chunk 0, not chunk chunk_id
push_existing_first_chunk(item, chunk_id) ==
    \E o \in Vec_push(chunks.elems[1], item, heap) :
        /\ chunks' = [chunks EXCEPT !.elems[1] = o.vec]
        /\ heap' = o.heap
        /\ refs' = Append(refs, Vec_last(o.vec))

\* the branch `chunk_id < mut_chunks.len()`: insert into an existing chunk
push_existing(item, chunk_id) ==
    \E o \in Vec_push(chunks.elems[chunk_id + 1], item, heap) :
        /\ chunks' = [chunks EXCEPT !.elems[chunk_id + 1] = o.vec]
        /\ heap' = o.heap
        /\ refs' = Append(refs, Vec_last(o.vec))

\* mutant of push_new_chunk: the chunk is created by Vec::new(), without its
\* capacity
push_new_chunk_unreserved(item, chunk_id) ==
    \E o \in Vec_push(Vec_new, item, heap) :
        \E d \in Vec_push(chunks, o.vec, o.heap) :
            /\ chunks' = d.vec
            /\ heap' = d.heap
            /\ refs' = Append(refs, Vec_last(o.vec))

\* mutant of push_new_chunk: every new chunk has the first chunk's capacity
push_new_chunk_first_size(item, chunk_id) ==
    LET a == Vec_with_capacity(FIRST_CHUNK_SIZE, heap) IN
    \E o \in Vec_push(a.vec, item, a.heap) :
        \E d \in Vec_push(chunks, o.vec, o.heap) :
            /\ chunks' = d.vec
            /\ heap' = d.heap
            /\ refs' = Append(refs, Vec_last(o.vec))

\* the else branch: allocate a new chunk, insert, take the element pointer,
\* then move the chunk into the directory
push_new_chunk(item, chunk_id) ==
    LET a == Vec_with_capacity(chunk_size(chunk_id), heap) IN
    \E o \in Vec_push(a.vec, item, a.heap) :
        \E d \in Vec_push(chunks, o.vec, o.heap) :
            /\ chunks' = d.vec
            /\ heap' = d.heap
            /\ refs' = Append(refs, Vec_last(o.vec))

\* mutant of Push: the chunk is found from the index after the new one
Push_chunk_of_next_index(item) ==
    LET new_index == len
        chunk_id == index_chunk(wrapping_add(new_index, 1))
    IN  /\ IF chunk_id < Len(chunks.elems)
           THEN push_existing(item, chunk_id)
           ELSE push_new_chunk(item, chunk_id)
        /\ len' = wrapping_add(len, 1)
        /\ pushed' = Append(pushed, item)
        /\ ret' = [op |-> "push", arg |-> item, it |-> "-",
                   res |-> Some(refs'[Len(refs')], item)]
        /\ UNCHANGED <<source, iters, arith, other, race>>

\* mutant of Push: the length is not set after the item is stored
Push_len_not_set(item) ==
    LET new_index == len
        chunk_id == index_chunk(new_index)
    IN  /\ IF chunk_id < Len(chunks.elems)
           THEN push_existing(item, chunk_id)
           ELSE push_new_chunk(item, chunk_id)
        /\ len' = len
        /\ pushed' = Append(pushed, item)
        /\ ret' = [op |-> "push", arg |-> item, it |-> "-",
                   res |-> Some(refs'[Len(refs')], item)]
        /\ UNCHANGED <<source, iters, arith, other, race>>

Push(item) ==
    LET new_index == len
        chunk_id == index_chunk(new_index)
    IN  /\ IF chunk_id < Len(chunks.elems)
           THEN push_existing(item, chunk_id)
           ELSE push_new_chunk(item, chunk_id)
        /\ len' = wrapping_add(len, 1)
        /\ pushed' = Append(pushed, item)
        /\ ret' = [op |-> "push", arg |-> item, it |-> "-",
                   res |-> Some(refs'[Len(refs')], item)]
        /\ UNCHANGED <<source, iters, arith, other, race>>

(***************************************************************************)
(* AppendList::len, get, Index::index                                      *)
(***************************************************************************)
\* mutant of get: the bounds check is `index > len`
get_off_by_one(index) ==
    IF index > len
    THEN None
    ELSE LET chunk_id == index_chunk(index)
             start == chunk_start(chunk_id)
             off == wrapping_sub(index, start)
         IN  IF \/ chunk_id >= Len(chunks.elems)
                \/ index < start
                \/ off >= Len(chunks.elems[chunk_id + 1].elems)
             THEN Panic
             ELSE Some([ptr |-> chunks.elems[chunk_id + 1].ptr, off |-> off],
                       chunks.elems[chunk_id + 1].elems[off + 1])

get(index) ==
    IF index >= len
    THEN None
    ELSE LET chunk_id == index_chunk(index)
             start == chunk_start(chunk_id)
             off == wrapping_sub(index, start)
         IN  IF \/ chunk_id >= Len(chunks_slice)
                \/ index < start
                \/ off >= Len(chunks_slice[chunk_id + 1].elems)
             THEN Panic
             ELSE Some([ptr |-> chunks_slice[chunk_id + 1].ptr, off |-> off],
                       chunks_slice[chunk_id + 1].elems[off + 1])

\* Option::expect
expect(opt) == IF opt.tag = "None" THEN Panic ELSE opt

\* mutant of index_op: an index past the end is clamped to the last element
index_op_clamped(index) ==
    expect(get(IF index >= len /\ len > 0 THEN len - 1 ELSE index))

index_op(index) == expect(get(index))

LenCall ==
    /\ ret' = [op |-> "len", arg |-> 0, it |-> "-",
               res |-> [tag |-> "Usize", n |-> len]]
    /\ UNCHANGED <<chunks, len, heap, source, pushed, refs, iters, arith, other, race>>

Get(index) ==
    /\ ret' = [op |-> "get", arg |-> index, it |-> "-", res |-> get(index)]
    /\ UNCHANGED <<chunks, len, heap, source, pushed, refs, iters, arith, other, race>>

Index(index) ==
    /\ ret' = [op |-> "index", arg |-> index, it |-> "-", res |-> index_op(index)]
    /\ UNCHANGED <<chunks, len, heap, source, pushed, refs, iters, arith, other, race>>

(***************************************************************************)
(* Reading through a reference the caller kept (`*r`)                      *)
(***************************************************************************)
\* the chunks whose buffer is at address p
chunks_at(p) == { c \in 1 .. Len(chunks_slice) : chunks_slice[c].ptr = p }

\* ref points into a live buffer, at a slot that holds an element
valid_ref(ref) ==
    /\ ref.ptr # NoAlloc
    /\ ref.ptr \notin heap.freed
    /\ \E c \in chunks_at(ref.ptr) : ref.off < Len(chunks_slice[c].elems)

\* the outcomes of reading *ref.  Reading through a dangling reference is
\* undefined behaviour: any item, or a crash.
load(ref) ==
    IF valid_ref(ref)
    THEN { Some(ref, chunks_slice[c].elems[ref.off + 1]) : c \in chunks_at(ref.ptr) }
    ELSE { Some(ref, v) : v \in Values } \cup { Panic }

\* the caller reads the k-th reference push returned
Deref(k) ==
    /\ k \in 1 .. Len(refs)
    /\ \E r \in load(refs[k]) :
           ret' = [op |-> "deref", arg |-> k - 1, it |-> "-", res |-> r]
    /\ UNCHANGED <<chunks, len, heap, source, pushed, refs, iters, arith, other, race>>

\* every element in storage order: chunk 0's elements, then chunk 1's, ...
RECURSIVE concat_chunks(_, _)
concat_chunks(cs, n) ==
    IF n = 0 THEN <<>> ELSE concat_chunks(cs, n - 1) \o cs[n].elems

contents == concat_chunks(chunks_slice, Len(chunks_slice))

(***************************************************************************)
(* AppendList::check_invariants, assertion by assertion                    *)
(***************************************************************************)
\* Vec::len and Vec::capacity of the chunk chunk_id
chunk_len(chunk_id) == Len(chunks_slice[chunk_id + 1].elems)

chunk_capacity(chunk_id) == chunks_slice[chunk_id + 1].cap

\* "Correct number of chunks"
correct_number_of_chunks ==
    index_chunk(wrapping_sub(len, 1)) = wrapping_sub(Len(chunks_slice), 1)

\* "Every chunk holds enough items"
every_chunk_holds_enough ==
    \A chunk_id \in 0 .. Len(chunks_slice) - 1 :
        chunk_size(chunk_id) <= chunk_capacity(chunk_id)

\* "Intermediate chunks are full"
intermediate_chunks_full ==
    \A chunk_id \in 0 .. Len(chunks_slice) - 2 :
        chunk_size(chunk_id) = chunk_len(chunk_id)

\* "Last chunk is correct length"; last() of no chunk is None and unwrap
\* panics
last_chunk_correct_length ==
    /\ Len(chunks_slice) > 0
    /\ chunk_len(Len(chunks_slice) - 1) =
           wrapping_sub(len, chunk_start(Len(chunks_slice) - 1))

\* "No chunks"
no_chunks == 0 = Len(chunks_slice)

\* TRUE when no assertion of check_invariants fails
check_invariants ==
    IF len > 0
    THEN /\ correct_number_of_chunks
         /\ every_chunk_holds_enough
         /\ intermediate_chunks_full
         /\ last_chunk_correct_length
    ELSE no_chunks

(***************************************************************************)
(* Spec: one list, pushes of the caller's items and lookups at every index *)
(* up to one past the longest list and at usize::MAX                       *)
(***************************************************************************)
Indices == (0 .. (MaxLen + 1)) \cup {MaxWord}

PushNext == len < MaxLen /\ Push(NextItem)

GetNext == \E index \in Indices : Get(index)

IndexNext == \E index \in Indices : Index(index)

DerefNext == \E k \in 1 .. MaxLen : Deref(k)

Next == PushNext \/ GetNext \/ IndexNext \/ LenCall \/ DerefNext

Spec == Init /\ [][Next]_vars

(***************************************************************************)
(* SpecLong: pushes only, up to five chunks                                *)
(***************************************************************************)
PushLong == len < LongLen /\ Push(NextItem)

SpecLong == Init /\ [][PushLong]_vars

(***************************************************************************)
(* Iter: AppendList::iter, Iter::next, Iter::size_hint                     *)
(***************************************************************************)
Unit == [tag |-> "Unit"]

Hint(lo, hi) == [tag |-> "Hint", lo |-> lo, hi |-> hi]

\* mutant of IterNew: a new iterator starts where the other iterator is
IterNew_at_other_cursor(id) ==
    /\ iters' = [iters EXCEPT ![id] =
                    [live |-> TRUE,
                     index |-> iters[CHOOSE jd \in IterIds : jd # id].index,
                     created_len |-> len, seen |-> <<>>]]
    /\ ret' = [op |-> "iter", arg |-> 0, it |-> id, res |-> Unit]
    /\ UNCHANGED <<chunks, len, heap, source, pushed, refs, arith, other, race>>

\* mutant of IterNew: the cursor of a new iterator is at the second item
IterNew_from_second(id) ==
    /\ iters' = [iters EXCEPT ![id] = [live |-> TRUE, index |-> 1,
                                       created_len |-> len, seen |-> <<>>]]
    /\ ret' = [op |-> "iter", arg |-> 0, it |-> id, res |-> Unit]
    /\ UNCHANGED <<chunks, len, heap, source, pushed, refs, arith, other, race>>

\* AppendList::iter (IntoIterator::into_iter calls it); `seen` and
\* `created_len` are history: the items this iterator yielded, and the
\* length of the list when it was created
IterNew(id) ==
    /\ iters' = [iters EXCEPT ![id] = [live |-> TRUE, index |-> 0,
                                       created_len |-> len, seen |-> <<>>]]
    /\ ret' = [op |-> "iter", arg |-> 0, it |-> id, res |-> Unit]
    /\ UNCHANGED <<chunks, len, heap, source, pushed, refs, arith, other, race>>

\* mutant of IterNext: the cursor is shared by the iterators of the list
IterNext_shared_cursor(id) ==
    /\ iters[id].live
    /\ LET item == get(iters[id].index) IN
          /\ iters' = IF item = Panic THEN iters
                      ELSE [jd \in IterIds |->
                               IF jd = id
                               THEN [iters[jd] EXCEPT
                                        !.index = wrapping_add(@, 1),
                                        !.seen = IF item.tag = "Some"
                                                 THEN Append(@, item) ELSE @]
                               ELSE [iters[jd] EXCEPT
                                        !.index = wrapping_add(@, 1)]]
          /\ ret' = [op |-> "next", arg |-> iters[id].index, it |-> id,
                     res |-> item]
    /\ UNCHANGED <<chunks, len, heap, source, pushed, refs, arith, other, race>>

\* Iter::next: the lookup at the cursor, then the cursor moves on, whatever
\* the lookup returned
IterNext(id) ==
    /\ iters[id].live
    /\ LET item == get(iters[id].index) IN
          /\ iters' = IF item = Panic THEN iters
                      ELSE [iters EXCEPT
                               ![id].index = wrapping_add(@, 1),
                               ![id].seen = IF item.tag = "Some"
                                            THEN Append(@, item) ELSE @]
          /\ ret' = [op |-> "next", arg |-> iters[id].index, it |-> id,
                     res |-> item]
    /\ UNCHANGED <<chunks, len, heap, source, pushed, refs, arith, other, race>>

\* the outcomes of `self.list.len() - self.index`: a build with overflow
\* checks panics when the cursor is past the length, a build without wraps
size_hint(id) ==
    IF iters[id].index > len
    THEN { Panic,
           Hint(wrapping_sub(len, iters[id].index),
                wrapping_sub(len, iters[id].index)) }
    ELSE { Hint(len - iters[id].index, len - iters[id].index) }

\* Iter::size_hint
SizeHint(id) ==
    /\ iters[id].live
    /\ \E r \in size_hint(id) :
           ret' = [op |-> "size_hint", arg |-> iters[id].index, it |-> id,
                   res |-> r]
    /\ UNCHANGED <<chunks, len, heap, source, pushed, refs, iters, arith, other, race>>

(***************************************************************************)
(* SpecIter: pushes interleaved with the calls on two iterators            *)
(***************************************************************************)
PushIter == len < MaxIterLen /\ Push(NextItem)

IterNewNext == \E id \in IterIds : IterNew(id)

IterNextNext == \E id \in IterIds : iters[id].index < MaxIndex /\ IterNext(id)

SizeHintNext == \E id \in IterIds : SizeHint(id)

NextIter == PushIter \/ IterNewNext \/ IterNextNext \/ SizeHintNext

SpecIter == Init /\ [][NextIter]_vars

(***************************************************************************)
(* PartialEq::eq on two lists                                              *)
(***************************************************************************)
Bool(b) == [tag |-> "Bool", b |-> b]

\* AppendList::get on the list l, a record with the fields chunks and len
list_get(l, index) ==
    IF index >= l.len
    THEN None
    ELSE LET chunk_id == index_chunk(index)
             start == chunk_start(chunk_id)
             off == wrapping_sub(index, start)
         IN  IF \/ chunk_id >= Len(l.chunks.elems)
                \/ index < start
                \/ off >= Len(l.chunks.elems[chunk_id + 1].elems)
             THEN Panic
             ELSE Some([ptr |-> l.chunks.elems[chunk_id + 1].ptr, off |-> off],
                       l.chunks.elems[chunk_id + 1].elems[off + 1])

\* mutant of eq_loop: the comparison ends as equal when self is exhausted
RECURSIVE eq_loop_until_self_ends(_, _)
eq_loop_until_self_ends(o, i) ==
    LET a == get(i)
        b == list_get(o, i)
    IN  IF a = Panic \/ b = Panic THEN Panic
        ELSE IF a.tag = "Some" /\ b.tag = "Some" /\ a.val = b.val
             THEN eq_loop_until_self_ends(o, i + 1)
        ELSE IF a = None THEN Bool(TRUE)
        ELSE Bool(FALSE)

\* the loop of eq: both iterators, self.iter() and other.iter(), are at
\* cursor i; their next() are the lookups at i
RECURSIVE eq_loop(_, _)
eq_loop(o, i) ==
    LET a == get(i)
        b == list_get(o, i)
    IN  IF a = Panic \/ b = Panic THEN Panic
        ELSE IF a.tag = "Some" /\ b.tag = "Some" /\ a.val = b.val
             THEN eq_loop(o, i + 1)
        ELSE IF a = None /\ b = None THEN Bool(TRUE)
        ELSE Bool(FALSE)

\* self == other
eq(o) == eq_loop(o, 0)

Eq ==
    /\ ret' = [op |-> "eq", arg |-> 0, it |-> "-", res |-> eq(other)]
    /\ UNCHANGED <<chunks, len, heap, source, pushed, refs, iters, arith, other, race>>

\* the caller turns to its other list: the next calls are made on it
Swap ==
    /\ chunks' = other.chunks
    /\ len' = other.len
    /\ pushed' = other.pushed
    /\ refs' = other.refs
    /\ source' = other.source
    /\ iters' = other.iters
    /\ other' = [chunks |-> chunks, len |-> len, pushed |-> pushed,
                 refs |-> refs, source |-> source, iters |-> iters]
    /\ ret' = [op |-> "swap", arg |-> 0, it |-> "-", res |-> Unit]
    /\ UNCHANGED <<heap, arith, race>>

(***************************************************************************)
(* SpecEq: two lists with their own items, pushes on either, comparisons   *)
(***************************************************************************)
InitEq ==
    /\ new
    /\ heap = [next |-> 1, freed |-> {}]
    /\ source \in [1 .. Period -> Values]
    /\ pushed = <<>>
    /\ refs = <<>>
    /\ iters = [id \in IterIds |-> NoIter]
    /\ ret = NoRet
    /\ arith = ArithIdle
    /\ other \in { OtherNew(src) : src \in [1 .. Period -> Values] }
    /\ race = RaceIdle

PushEq == len < MaxEqLen /\ Push(NextItem)

NextEq == PushEq \/ Swap \/ Eq \/ LenCall

SpecEq == InitEq /\ [][NextEq]_vars

(***************************************************************************)
(* SpecAll: every operation of the list and of its iterators, on two lists *)
(***************************************************************************)
AllIndices == (0 .. (MaxAllLen + 1)) \cup {MaxWord}

PushAll == len < MaxAllLen /\ Push(NextItem)

GetAll == \E index \in AllIndices : Get(index)

IndexAll == \E index \in AllIndices : Index(index)

IterNextAll == \E id \in IterIds : iters[id].index <= len /\ IterNext(id)

\* each iterator is created once
IterNewAll == \E id \in IterIds : ~ iters[id].live /\ IterNew(id)

\* the two lists are built before the iterators are
SwapAll ==
    /\ \A id \in IterIds : ~ iters[id].live /\ ~ other.iters[id].live
    /\ Swap

\* the items of a list are all the same, the two lists have the same items
\* or not
InitAll ==
    /\ new
    /\ heap = [next |-> 1, freed |-> {}]
    /\ source \in { [i \in 1 .. Period |-> v] : v \in Values }
    /\ pushed = <<>>
    /\ refs = <<>>
    /\ iters = [id \in IterIds |-> NoIter]
    /\ ret = NoRet
    /\ arith = ArithIdle
    /\ other = OtherNew([i \in 1 .. Period |-> 1])
    /\ race = RaceIdle

NextAll ==
    \/ PushAll
    \/ LenCall
    \/ GetAll
    \/ IndexAll
    \/ IterNewAll
    \/ IterNextAll
    \/ SizeHintNext
    \/ Eq
    \/ SwapAll

SpecAll == InitAll /\ [][NextAll]_vars

(***************************************************************************)
(* AppendList::push statement by statement, for callers that are not       *)
(* synchronized: the list is not Sync, such callers share it through       *)
(* unsafe code                                                             *)
(***************************************************************************)
OtherProc(p) == CHOOSE q \in Procs : q # p

\* `let new_index = self.len.get();`
ReadLen(p, item) ==
    /\ race.procs[p].pc = "idle"
    /\ race' = [procs |-> [race.procs EXCEPT
                              ![p] = [ProcIdle EXCEPT !.pc = "read",
                                                      !.new_index = len,
                                                      !.item = item]],
                overlapped |-> \/ race.overlapped
                               \/ race.procs[OtherProc(p)].pc # "idle"]
    /\ UNCHANGED <<chunks, len, heap, source, pushed, refs, iters, ret, arith,
                   other>>

\* `let chunk_id = index_chunk(new_index);`
ComputeChunk(p) ==
    /\ race.procs[p].pc = "read"
    /\ race' = [race EXCEPT
                   !.procs[p].pc = "computed",
                   !.procs[p].chunk_id = index_chunk(race.procs[p].new_index)]
    /\ UNCHANGED <<chunks, len, heap, source, pushed, refs, iters, ret, arith,
                   other>>

\* `let item_ptr = if chunk_id < mut_chunks.len() { .. } else { .. };`
Store(p) ==
    /\ race.procs[p].pc = "computed"
    /\ IF race.procs[p].chunk_id < Len(chunks.elems)
       THEN push_existing(race.procs[p].item, race.procs[p].chunk_id)
       ELSE push_new_chunk(race.procs[p].item, race.procs[p].chunk_id)
    /\ pushed' = Append(pushed, race.procs[p].item)
    /\ race' = [race EXCEPT !.procs[p].pc = "stored",
                            !.procs[p].item_ptr = refs'[Len(refs')]]
    /\ UNCHANGED <<len, source, iters, ret, arith, other>>

\* mutant of WriteLen: push returns without setting the length
WriteLen_keeps_len(p) ==
    /\ race.procs[p].pc = "stored"
    /\ len' = len
    /\ ret' = [op |-> "push", arg |-> race.procs[p].item, it |-> "-",
               res |-> Some(race.procs[p].item_ptr, race.procs[p].item)]
    /\ race' = [race EXCEPT !.procs[p] = ProcIdle]
    /\ UNCHANGED <<chunks, heap, source, pushed, refs, iters, arith, other>>

\* `self.len.set(self.len.get() + 1);` and the return of the reference
WriteLen(p) ==
    /\ race.procs[p].pc = "stored"
    /\ len' = wrapping_add(len, 1)
    /\ ret' = [op |-> "push", arg |-> race.procs[p].item, it |-> "-",
               res |-> Some(race.procs[p].item_ptr, race.procs[p].item)]
    /\ race' = [race EXCEPT !.procs[p] = ProcIdle]
    /\ UNCHANGED <<chunks, heap, source, pushed, refs, iters, arith, other>>

\* mutant of StoreFails: the length has been set before the allocation
StoreFails_after_len(p) ==
    /\ race.procs[p].pc = "computed"
    /\ ~ (race.procs[p].chunk_id < Len(chunks.elems))
    /\ len' = wrapping_add(len, 1)
    /\ ret' = [op |-> "push", arg |-> race.procs[p].item, it |-> "-",
               res |-> Panic]
    /\ race' = [race EXCEPT !.procs[p] = ProcIdle]
    /\ UNCHANGED <<chunks, heap, source, pushed, refs, iters, arith, other>>

\* the else branch of push when an allocation fails and push unwinds:
\* Vec::with_capacity fails, before anything is written, or the directory
\* is full and mut_chunks.push cannot grow it, and then the new chunk, a
\* local of push that holds the item, is dropped and its buffer released;
\* `self.len.set` is not reached
StoreFails(p) ==
    /\ race.procs[p].pc = "computed"
    /\ ~ (race.procs[p].chunk_id < Len(chunks.elems))
    /\ \/ heap' = heap
       \/ /\ Len(chunks.elems) = chunks.cap
          /\ heap.next < MaxHeap
          /\ LET a == Vec_with_capacity(chunk_size(race.procs[p].chunk_id),
                                        heap)
             IN  heap' = [a.heap EXCEPT
                             !.freed = @ \cup ({a.vec.ptr} \ {NoAlloc})]
    /\ ret' = [op |-> "push", arg |-> race.procs[p].item, it |-> "-",
               res |-> Panic]
    /\ race' = [race EXCEPT !.procs[p] = ProcIdle]
    /\ UNCHANGED <<chunks, len, source, pushed, refs, iters, arith, other>>

\* the items of the list are all the same
InitRace ==
    /\ new
    /\ heap = [next |-> 1, freed |-> {}]
    /\ source \in { [i \in 1 .. Period |-> v] : v \in Values }
    /\ pushed = <<>>
    /\ refs = <<>>
    /\ iters = [id \in IterIds |-> NoIter]
    /\ ret = NoRet
    /\ arith = ArithIdle
    /\ other = OtherNew([i \in 1 .. Period |-> 1])
    /\ race = RaceIdle

(***************************************************************************)
(* SpecAlloc: one caller pushes, and the allocations of push can fail      *)
(***************************************************************************)
ReadLenAlloc == len < LongLen /\ ReadLen("p1", NextItem)

NextAlloc ==
    \/ ReadLenAlloc
    \/ ComputeChunk("p1")
    \/ Store("p1")
    \/ StoreFails("p1")
    \/ WriteLen("p1")

SpecAlloc == InitRace /\ [][NextAlloc]_vars

(***************************************************************************)
(* SpecRace: two callers push without synchronization                      *)
(***************************************************************************)
ReadLenNext == \E p \in Procs : len < MaxRaceLen /\ ReadLen(p, NextItem)

ComputeChunkNext == \E p \in Procs : ComputeChunk(p)

StoreNext == \E p \in Procs : Store(p)

WriteLenNext == \E p \in Procs : WriteLen(p)

NextRace == ReadLenNext \/ ComputeChunkNext \/ StoreNext \/ WriteLenNext

SpecRace == InitRace /\ [][NextRace]_vars

(***************************************************************************)
(* SpecArith: the chunk arithmetic, evaluated at every usize index and at  *)
(* the chunk ids up to twice the width of usize                            *)
(***************************************************************************)
ChunkIds == 0 .. (2 * Bits)

ArithInputs ==
    { [ArithIdle EXCEPT !.fn = "index_chunk", !.arg = index] : index \in Usize }
    \cup
    { [ArithIdle EXCEPT !.fn = "chunk", !.arg = chunk_id] : chunk_id \in ChunkIds }

InitArith ==
    /\ new
    /\ heap = [next |-> 1, freed |-> {}]
    /\ source = [i \in 1 .. Period |-> 1]
    /\ pushed = <<>>
    /\ refs = <<>>
    /\ iters = [id \in IterIds |-> NoIter]
    /\ ret = NoRet
    /\ arith \in ArithInputs
    /\ other = OtherNew([i \in 1 .. Period |-> 1])
    /\ race = RaceIdle

\* index_chunk(index), then chunk_start and chunk_size of the chunk found, as
\* test index_chunk_matches_up evaluates them
EvalIndexChunk ==
    /\ arith.fn = "index_chunk" /\ ~ arith.done
    /\ LET chunk_id == index_chunk(arith.arg) IN
          arith' = [arith EXCEPT
                       !.done = TRUE,
                       !.chunk_id = chunk_id,
                       !.start = chunk_start(chunk_id),
                       !.size = chunk_size(chunk_id),
                       !.panics = \/ index_chunk_overflows(arith.arg)
                                  \/ chunk_start_overflows(chunk_id)]
    /\ UNCHANGED <<chunks, len, heap, source, pushed, refs, iters, ret, other, race>>

\* chunk_start and chunk_size of a chunk id and chunk_start of the next, as
\* test chunk_sizes_make_sense evaluates them
EvalChunk ==
    /\ arith.fn = "chunk" /\ ~ arith.done
    /\ arith' = [arith EXCEPT
                    !.done = TRUE,
                    !.chunk_id = arith.arg,
                    !.start = chunk_start(arith.arg),
                    !.size = chunk_size(arith.arg),
                    !.next_start = chunk_start(wrapping_add(arith.arg, 1)),
                    !.panics = \/ chunk_start_overflows(arith.arg)
                               \/ chunk_start_overflows(arith.arg + 1)]
    /\ UNCHANGED <<chunks, len, heap, source, pushed, refs, iters, ret, other, race>>

NextArith == EvalIndexChunk \/ EvalChunk

SpecArith == InitArith /\ [][NextArith]_vars

(***************************************************************************)
(* Properties                                                              *)
(***************************************************************************)
\* every chunk of the directory in the state before a step is, after the
\* step, still at the same place of the directory, with the same buffer
\* address and capacity, not released, and with its elements where they were
ChunksStay ==
    \A c \in 1 .. Len(chunks.elems) :
        /\ c <= Len(chunks'.elems)
        /\ chunks'.elems[c].ptr = chunks.elems[c].ptr
        /\ chunks'.elems[c].cap = chunks.elems[c].cap
        /\ chunks.elems[c].ptr \notin heap'.freed
        /\ Len(chunks'.elems[c].elems) >= Len(chunks.elems[c].elems)
        /\ SubSeq(chunks'.elems[c].elems, 1, Len(chunks.elems[c].elems))
               = chunks.elems[c].elems

\* the k-th reference push returned points into a live buffer and the slot
\* it points to holds the k-th pushed item
RefHolds(k) ==
    /\ valid_ref(refs[k])
    /\ load(refs[k]) = { Some(refs[k], pushed[k]) }

\* C1: reference stability.  Every reference returned by a push stays a
\* reference to a live slot holding the pushed item in every later state, and
\* no step moves, reallocates or releases the buffer of an existing chunk,
\* also not the steps that allocate a chunk or grow the chunk directory.
C1_ReferenceStability ==
    /\ [](\A k \in 1 .. Len(refs) : RefHolds(k))
    /\ [][ChunksStay]_vars

\* C1 witness: five chunks exist, so the directory has grown from capacity 4
\* to 8 while the references into chunks 0..3 were held
C1_Witness ==
    /\ Len(chunks.elems) = 5
    /\ chunks.cap = 8
    /\ Len(refs) = LongLen
    /\ refs[1].ptr = chunks.elems[1].ptr
    /\ refs[17].ptr = chunks.elems[2].ptr

\* C2: after the pushes of v0..v(n-1): len() = n, get(i) = Some(v_i) for
\* every i < n and get(n) = None, in every intermediate state as well; the
\* outcomes of the len and get calls agree.
C2_PushThenGet ==
    /\ len = Len(pushed)
    /\ \A i \in 0 .. Len(pushed) - 1 :
           get(i).tag = "Some" /\ get(i).val = pushed[i + 1]
    /\ get(Len(pushed)) = None
    /\ ret.op = "len" => ret.res.n = Len(pushed)
    /\ (ret.op = "get" /\ ret.arg < Len(pushed)) =>
           (ret.res.tag = "Some" /\ ret.res.val = pushed[ret.arg + 1])
    /\ (ret.op = "get" /\ ret.arg = Len(pushed)) => ret.res = None

\* C2 witness: get(16) on a list of 17 items that are not all the same
\* returned the 17th
C2_Witness ==
    /\ Len(pushed) = 17
    /\ pushed[16] # pushed[17]
    /\ ret.op = "get" /\ ret.arg = 16
    /\ ret.res.tag = "Some" /\ ret.res.val = pushed[17]

\* C3: the reference push returned when the length was i is the slot get(i)
\* returns and holds the value get(i) returns, right after that push and
\* after every later push, in both branches of push.
C3_PushRefIsGetSlot ==
    /\ Len(refs) = len
    /\ \A i \in 0 .. Len(refs) - 1 :
           /\ get(i).tag = "Some"
           /\ get(i).ref = refs[i + 1]
           /\ load(refs[i + 1]) = { get(i) }
    /\ ret.op = "push" =>
           /\ ret.res.ref = refs[len]
           /\ get(len - 1) = ret.res
    /\ ret.op = "deref" =>
           /\ ret.res.tag = "Some"
           /\ ret.res = get(ret.arg)

\* C3 witness: the reference of the 17th push (new-chunk branch) was read
\* after the 18th push (existing-chunk branch)
C3_Witness ==
    /\ len = 18
    /\ ret.op = "deref" /\ ret.arg = 16
    /\ ret.res.tag = "Some"
    /\ ret.res.ref = [ptr |-> chunks.elems[2].ptr, off |-> 0]
    /\ ret.res.val = pushed[17]

\* what a push step does to the storage
PushFrame ==
    LET n == Len(chunks.elems)
        item == pushed'[Len(pushed')]
    IN  /\ Len(contents) = len
        /\ contents' = Append(contents, item)
        /\ \A c \in 1 .. n - 1 : chunks'.elems[c].elems = chunks.elems[c].elems
        /\ \/ /\ n > 0
              /\ Len(chunks'.elems) = n
              /\ chunks'.elems[n].elems = Append(chunks.elems[n].elems, item)
           \/ /\ Len(chunks'.elems) = n + 1
              /\ n > 0 => chunks'.elems[n].elems = chunks.elems[n].elems
              /\ chunks'.elems[n + 1].elems = <<item>>

\* C4: a push writes exactly one element slot: the first free slot of the
\* last chunk, or the first slot of a new chunk; it is the slot of global
\* index len (the length before the push), and every slot filled before the
\* push keeps its content.
C4_PushWritesOneSlot == [][pushed' # pushed => PushFrame]_vars

\* C4 witness: a push has written slot 1 of chunk 1 while chunk 0 was full
C4_Witness ==
    /\ ret.op = "push"
    /\ len = 18
    /\ Len(chunks.elems) = 2
    /\ Len(chunks.elems[1].elems) = FIRST_CHUNK_SIZE
    /\ ret.res.ref = [ptr |-> chunks.elems[2].ptr, off |-> 1]

\* C5: get(index) is None exactly when index >= len, for every index up to
\* usize::MAX; for index < len no step of the computation overflows, the
\* chunk and the offset exist, and the result is the element
\* chunks[index_chunk(index)][index - chunk_start(index_chunk(index))].
C5_GetBounds ==
    ret.op = "get" =>
        LET chunk_id == index_chunk(ret.arg)
            off == ret.arg - chunk_start(chunk_id)
        IN  /\ (ret.res = None) <=> (ret.arg >= len)
            /\ ret.arg < len =>
                  /\ ~ index_chunk_overflows(ret.arg)
                  /\ ~ chunk_start_overflows(chunk_id)
                  /\ chunk_id < Len(chunks.elems)
                  /\ off >= 0
                  /\ off < Len(chunks.elems[chunk_id + 1].elems)
                  /\ ret.res = Some([ptr |-> chunks.elems[chunk_id + 1].ptr,
                                     off |-> off],
                                    chunks.elems[chunk_id + 1].elems[off + 1])

\* C5 witness: get(usize::MAX) on a list with two chunks returned None
C5_Witness ==
    /\ ret.op = "get" /\ ret.arg = MaxWord
    /\ ret.res = None
    /\ len = 17

\* C6: list[index] returns the element get(index) returns when index < len
\* and panics exactly when index >= len; the list is unchanged either way.
C6_IndexPanicsOutOfBounds ==
    /\ [](ret.op = "index" =>
            /\ (ret.res = Panic) <=> (ret.arg >= len)
            /\ ret.arg < len =>
                  /\ ret.res.tag = "Some"
                  /\ ret.res.ref = refs[ret.arg + 1]
                  /\ ret.res.val = pushed[ret.arg + 1])
    /\ [][ret'.op = "index" => UNCHANGED <<chunks, len, heap>>]_vars

\* C6 witness: list[len] panicked on a list of 17 items
C6_Witness ==
    /\ ret.op = "index" /\ ret.arg = 17
    /\ len = 17
    /\ ret.res = Panic

\* C7 (as claimed): an iterator created on an empty list yields, under every
\* interleaving of push and next, the pushed elements in insertion order,
\* each exactly once (what it has yielded is always the first elements of
\* the list, slot by slot), and skips none (when next returns None, every
\* element of the list has been yielded).
C7_IterYieldsEachOnce ==
    \A id \in IterIds :
        (iters[id].live /\ iters[id].created_len = 0) =>
            /\ Len(iters[id].seen) <= len
            /\ \A k \in 1 .. Len(iters[id].seen) :
                   /\ k <= len
                   /\ iters[id].seen[k] = Some(refs[k], pushed[k])
            /\ (ret.op = "next" /\ ret.it = id /\ ret.res = None) =>
                   Len(iters[id].seen) = len

\* C8 (as claimed): size_hint returns (r, Some(r)), r being the number of
\* elements of the list the iterator has not yielded, which is the length
\* minus the cursor position.
C8_SizeHintExact ==
    ret.op = "size_hint" =>
        /\ ret.res.tag = "Hint"
        /\ ret.res.lo = ret.res.hi
        /\ ret.res.lo = len - Len(iters[ret.it].seen)
        /\ ret.res.lo = len - iters[ret.it].index

\* the arithmetic has been evaluated at an index / at a chunk id
IndexEvaluated == arith.fn = "index_chunk" /\ arith.done

ChunkEvaluated == arith.fn = "chunk" /\ arith.done

\* index lies in the chunk index_chunk finds, and nothing overflowed
IndexInItsChunk ==
    /\ ~ arith.panics
    /\ arith.start <= arith.arg
    /\ arith.arg < arith.start + arith.size

\* C9 (as claimed): for every index of the machine word,
\* chunk_start(index_chunk(index)) <= index
\*   < chunk_start(index_chunk(index)) + chunk_size(index_chunk(index)).
C9_EveryIndexInItsChunk == IndexEvaluated => IndexInItsChunk

\* C9 (amended): the same for every index <= usize::MAX - FIRST_CHUNK_SIZE,
\* the indices for which index + FIRST_CHUNK_SIZE does not overflow.
C9_IndexInItsChunk ==
    (IndexEvaluated /\ arith.arg <= MaxWord - FIRST_CHUNK_SIZE) => IndexInItsChunk

\* C9 witness: the largest such index, the last of the last chunk
C9_Witness ==
    /\ IndexEvaluated
    /\ arith.arg = MaxWord - FIRST_CHUNK_SIZE
    /\ arith.chunk_id = Bits - 1 - floor_log2(FIRST_CHUNK_SIZE)
    /\ arith.start + arith.size = arith.arg + 1

\* each chunk starts where the previous one ends, chunk 0 starts at 0 with
\* FIRST_CHUNK_SIZE slots, and nothing overflowed
ChunksTile ==
    /\ ~ arith.panics
    /\ arith.size > 0
    /\ arith.next_start = arith.start + arith.size
    /\ arith.arg = 0 => (arith.start = 0 /\ arith.size = FIRST_CHUNK_SIZE)

\* C10 (as claimed): for every chunk_id >= 0, chunk_start(chunk_id + 1) =
\* chunk_start(chunk_id) + chunk_size(chunk_id), chunk_start(0) = 0 and
\* chunk_size(0) = FIRST_CHUNK_SIZE.
C10_EveryChunkTiles == ChunkEvaluated => ChunksTile

\* chunk_size(chunk_id) is at most usize::MAX
size_fits(chunk_id) ==
    /\ chunk_id < Bits
    /\ FIRST_CHUNK_SIZE * (2 ^ chunk_id) <= MaxWord

\* C10 (amended): the same for every chunk_id for which
\* chunk_size(chunk_id + 1) does not exceed usize::MAX.
C10_ChunksTile == (ChunkEvaluated /\ size_fits(arith.arg + 1)) => ChunksTile

\* C10 witness: the last chunk id whose successor's size fits
C10_Witness ==
    /\ ChunkEvaluated
    /\ size_fits(arith.arg + 1) /\ ~ size_fits(arith.arg + 2)
    /\ arith.next_start = arith.start + arith.size
    /\ arith.next_start + 2 * arith.size = MaxWord - FIRST_CHUNK_SIZE + 1

\* C11: a == b is true exactly when the two lists have the same length and
\* the same item at every index: two empty lists are equal, lists of
\* different lengths are not, and the same pushes on both keep them equal.
C11_EqIffSameItems ==
    ret.op = "eq" =>
        /\ ret.res.tag = "Bool"
        /\ ret.res.b <=>
              /\ len = other.len
              /\ \A i \in 0 .. len - 1 :
                     /\ get(i).tag = "Some"
                     /\ list_get(other, i).tag = "Some"
                     /\ get(i).val = list_get(other, i).val
        /\ ret.res.b <=> (pushed = other.pushed)
        /\ (len = 0 /\ other.len = 0) => ret.res.b
        /\ len # other.len => ~ ret.res.b

\* C11 witness: two lists of the same length that differ in their last item
\* only compared unequal
C11_Witness ==
    /\ ret.op = "eq" /\ ret.res = Bool(FALSE)
    /\ len = MaxEqLen /\ other.len = MaxEqLen
    /\ SubSeq(pushed, 1, len - 1) = SubSeq(other.pushed, 1, len - 1)
    /\ pushed[len] # other.pushed[len]

\* the step of one call on the current list: the length of each of the two
\* lists after it, from the lengths before it
LenStep ==
    /\ ret'.op = "push" => len' = len + 1 /\ other'.len = other.len
    /\ ret'.op = "swap" => len' = other.len /\ other'.len = len
    /\ ret'.op \notin {"push", "swap"} => len' = len /\ other'.len = other.len
    /\ len' + other'.len >= len + other.len

C13_ChunkBoundaries ==
    /\ FIRST_CHUNK_SIZE = 16
    /\ index_chunk(16) = 1 /\ chunk_start(1) = 16
    /\ index_chunk(48) = 2 /\ chunk_start(2) = 48
    /\ len \in 1 .. 16 =>
          /\ Len(chunks.elems) = 1
          /\ chunks.elems[1].elems = pushed
    /\ len = 16 => Len(chunks.elems[1].elems) = chunks.elems[1].cap
    /\ len \in 17 .. 48 =>
          /\ Len(chunks.elems) = 2
          /\ chunks.elems[2].cap = 32
          /\ chunks.elems[1].elems = SubSeq(pushed, 1, 16)
          /\ chunks.elems[2].elems = SubSeq(pushed, 17, len)
    /\ len = 48 => Len(chunks.elems[2].elems) = chunks.elems[2].cap
    /\ len = 49 =>
          /\ Len(chunks.elems) = 3
          /\ chunks.elems[3].cap = 64
          /\ chunks.elems[2].elems = SubSeq(pushed, 17, 48)
          /\ chunks.elems[3].elems = <<pushed[49]>>

\* C13 witness: the 49th push has created chunk 2
C13_Witness ==
    /\ ret.op = "push" /\ len = 49
    /\ Len(chunks.elems) = 3
    /\ ret.res.tag = "Some" /\ ret.res.ref = [ptr |-> chunks.elems[3].ptr, off |-> 0]

\* the items of a sequence of Some(ref, val)
vals(q) == [k \in 1 .. Len(q) |-> q[k].val]

\* the list has not been pushed to since the iterator was created
OnBuiltList(id) == iters[id].live /\ iters[id].created_len = len

\* C14: a list built by pushing the items of a sequence in order has the
\* length of the sequence, and an iterator created on the built list yields
\* the items of the sequence in order and then None; two iterators on the
\* same list (iter() and into_iter()) yield the same sequence.
C14_BuildThenIterate ==
    /\ len = Len(pushed)
    /\ contents = pushed
    /\ \A id \in IterIds :
           OnBuiltList(id) =>
               /\ vals(iters[id].seen) =
                      SubSeq(pushed, 1, IF iters[id].index < len
                                        THEN iters[id].index ELSE len)
               /\ (ret.op = "next" /\ ret.it = id) =>
                      /\ ret.arg < len =>
                             /\ ret.res.tag = "Some"
                             /\ ret.res.val = pushed[ret.arg + 1]
                      /\ ret.arg >= len => ret.res = None
    /\ \A id \in IterIds, jd \in IterIds :
           (OnBuiltList(id) /\ OnBuiltList(jd)
               /\ iters[id].index = iters[jd].index) =>
                   iters[id].seen = iters[jd].seen

\* C14 witness: an iterator on a built list of two items has yielded both
\* and then None, and the other iterator on the same list has yielded one
C14_Witness ==
    /\ len = MaxIterLen
    /\ OnBuiltList("i1") /\ OnBuiltList("i2")
    /\ ret.op = "next" /\ ret.it = "i1" /\ ret.res = None
    /\ vals(iters["i1"].seen) = pushed
    /\ Len(iters["i2"].seen) = 1

\* C15: the number of chunks is index_chunk(length - 1) + 1 when the length
\* is positive and 0 when it is 0: the first assertion of check_invariants
\* fails in no state reached by pushes, in which push, len, get and iter
\* call it.
C15_ChunkCount ==
    /\ len > 0 =>
          /\ Len(chunks_slice) = index_chunk(len - 1) + 1
          /\ correct_number_of_chunks
    /\ len = 0 => Len(chunks_slice) = 0 /\ no_chunks

\* C15 witness: the push at index 112 has created the fourth chunk
C15_Witness ==
    /\ ret.op = "push" /\ len = chunk_start(3) + 1
    /\ Len(chunks_slice) = 4
    /\ index_chunk(len - 1) = 3

\* C16: every chunk but the last is exactly full, and the last chunk holds
\* at least one item; only the last chunk may be partially filled.
C16_OnlyLastChunkPartial ==
    /\ \A chunk_id \in 0 .. Len(chunks_slice) - 1 :
           IF chunk_id < Len(chunks_slice) - 1
           THEN chunk_len(chunk_id) = chunk_size(chunk_id)
           ELSE chunk_len(chunk_id) >= 1
    /\ len > 0 => intermediate_chunks_full

\* C16 witness: five chunks, the first four full and the last with one item
C16_Witness ==
    /\ Len(chunks_slice) = 5
    /\ \A chunk_id \in 0 .. 3 : chunk_len(chunk_id) = chunk_size(chunk_id)
    /\ chunk_len(4) = 1 /\ chunk_len(4) < chunk_capacity(4)

\* the sum of the fill counts of the first n chunks
RECURSIVE fill_sum(_)
fill_sum(n) == IF n = 0 THEN 0 ELSE fill_sum(n - 1) + chunk_len(n - 1)

\* C17: when the length is positive the last chunk's fill count is the
\* length minus chunk_start of the last chunk's id; the length is the sum of
\* the fill counts of all the chunks.
C17_LenMatchesLayout ==
    /\ len > 0 =>
          /\ Len(chunks_slice) > 0
          /\ chunk_len(Len(chunks_slice) - 1) =
                 len - chunk_start(Len(chunks_slice) - 1)
          /\ last_chunk_correct_length
    /\ len = fill_sum(Len(chunks_slice))

\* C17 witness: 100 items, 52 of them in the partially filled third chunk
C17_Witness ==
    /\ len = 100 /\ Len(chunks_slice) = 3
    /\ chunk_len(2) = 52 /\ chunk_len(2) < chunk_capacity(2)
    /\ fill_sum(2) = chunk_start(2)

\* the capacity of every chunk is the one it was created with
CapacitiesNow ==
    \A chunk_id \in 0 .. Len(chunks_slice) - 1 :
        /\ chunk_capacity(chunk_id) = chunk_size(chunk_id)
        /\ chunk_capacity(chunk_id) = FIRST_CHUNK_SIZE * 2 ^ chunk_id
        /\ chunk_len(chunk_id) <= chunk_capacity(chunk_id)

\* a step leaves the capacity of every chunk as it was: prev_capacity, read
\* before the insertion, is the capacity read after it
CapacitiesStay ==
    \A c \in 1 .. Len(chunks.elems) :
        /\ c <= Len(chunks'.elems)
        /\ chunks'.elems[c].cap = chunks.elems[c].cap

TargetIsLastOrNext ==
    LET chunk_id == index_chunk(len)
        n == Len(chunks_slice)
    IN  /\ chunk_id < n =>
              /\ chunk_id = n - 1
              /\ chunk_len(n - 1) < chunk_size(n - 1)
              /\ chunk_len(n - 1) < chunk_capacity(n - 1)
        /\ ~ (chunk_id < n) => chunk_id = n
        /\ chunk_id = n <=> (n = 0 \/ chunk_len(n - 1) = chunk_size(n - 1))

\* a push put its item into the chunk index_chunk(length), which it created
\* when it was not there, and the number of chunks grew by that chunk only
PushTargets ==
    LET chunk_id == index_chunk(len)
        n == Len(chunks_slice)
    IN  /\ Len(chunks'.elems) = IF chunk_id < n THEN n ELSE n + 1
        /\ chunk_id < Len(chunks'.elems)
        /\ Len(chunks'.elems[chunk_id + 1].elems) =
               IF chunk_id < n THEN chunk_len(chunk_id) + 1 ELSE 1
        /\ \A c \in 0 .. n - 1 :
               c # chunk_id => chunks'.elems[c + 1] = chunks.elems[c + 1]

\* C19: in every push the target chunk id index_chunk(length) is the id of
\* the last chunk, which is not full, or the number of chunks, which happens
\* exactly when the list is empty or the last chunk is exactly full; push
\* never targets a chunk before the last and never skips a chunk id.
C19_PushTargetsLastOrNext ==
    [] TargetIsLastOrNext /\ [][pushed' # pushed => PushTargets]_vars

\* C19 witness: a push has filled the third chunk, so the next push targets
\* chunk 3, which does not exist yet
C19_Witness ==
    /\ ret.op = "push" /\ Len(chunks_slice) = 3
    /\ chunk_len(2) = chunk_size(2)
    /\ index_chunk(len) = Len(chunks_slice)

ReadOps == {"len", "get", "index", "iter", "next", "size_hint", "eq"}

\* the state of the two lists: length, chunks with their contents, buffers
ListsUnchanged ==
    /\ UNCHANGED <<chunks, len, heap>>
    /\ other'.chunks = other.chunks
    /\ other'.len = other.len

\* the step of a read operation: the lists are as before; iter() sets its
\* iterator only, next() moves the cursor of its iterator only, by one, and
\* the other operations leave every iterator as it was
ReadFrame ==
    ret'.op \in ReadOps =>
        /\ ListsUnchanged
        /\ other'.iters = other.iters
        /\ \A id \in IterIds :
               \/ iters'[id] = iters[id]
               \/ /\ ret'.op = "iter" /\ ret'.it = id
               \/ /\ ret'.op = "next" /\ ret'.it = id
                  /\ iters'[id].live = iters[id].live
                  /\ iters'[id].created_len = iters[id].created_len
                  /\ iters'[id].index = iters[id].index + 1

\* C20: len(), get(index), list[index], iter(), Iter::next(),
\* Iter::size_hint() and == leave the length, the number of chunks and every
\* chunk's contents and fill count unchanged, for every argument, indices
\* out of bounds included; next() changes the cursor of its own iterator
\* only.
C20_ReadsChangeNothing == [][ReadFrame]_vars

\* C20 witness: next() on one iterator of a list with an item, while the
\* other iterator of the list has not moved and the other list has an item
C20_Witness ==
    /\ ret.op = "next" /\ ret.it = "i1" /\ ret.res.tag = "Some"
    /\ len = MaxAllLen /\ other.len > 0
    /\ iters["i1"].index = 1
    /\ iters["i2"].live /\ iters["i2"].index = 0

\* an iterator on a list not pushed to since its creation has yielded the
\* first items of the list, in order, as many as its cursor has passed
YieldsInOrder(id) ==
    OnBuiltList(id) =>
        /\ Len(iters[id].seen) = IF iters[id].index < len
                                 THEN iters[id].index ELSE len
        /\ \A k \in 1 .. Len(iters[id].seen) :
               iters[id].seen[k] = Some(refs[k], pushed[k])

\* a step of iter() or next() on one iterator: the new iterator is at index
\* 0, what next() yields is the item of the list at its own cursor, and the
\* other iterators are as they were
IterIndependent ==
    /\ ret'.op = "iter" =>
          /\ iters'[ret'.it].index = 0
          /\ iters'[ret'.it].seen = <<>>
          /\ \A jd \in IterIds \ {ret'.it} : iters'[jd] = iters[jd]
    /\ ret'.op = "next" =>
          /\ ret'.res = get(iters[ret'.it].index)
          /\ \A jd \in IterIds \ {ret'.it} : iters'[jd] = iters[jd]

\* C21: iterators are independent cursors: every iter() starts at index 0
\* whatever the other iterators did, next() on one iterator changes nothing
\* of what another yields, and two iterators over the same list each yield
\* the whole sequence in insertion order.
C21_IndependentCursors ==
    /\ [](\A id \in IterIds : YieldsInOrder(id))
    /\ [][IterIndependent]_vars

\* C21 witness: two iterators over the same list of two items have each
\* yielded the whole sequence, one of them having gone on to None
C21_Witness ==
    /\ len = MaxIterLen
    /\ OnBuiltList("i1") /\ OnBuiltList("i2")
    /\ vals(iters["i1"].seen) = pushed /\ vals(iters["i2"].seen) = pushed
    /\ iters["i1"].index > len /\ iters["i2"].index = len
    /\ ret.op = "next" /\ ret.it = "i2" /\ ret.res.tag = "Some"

\* C23 (as claimed): under every interleaving of push and next(), the cursor
\* of an iterator never exceeds the length of the list, so len - index in
\* size_hint never underflows; after next() has returned None it returns None
\* until a push, and then yields the newly pushed item (what next() yields
\* is always the first item not yet yielded).
C23_CursorWithinLength ==
    /\ \A id \in IterIds : iters[id].live => iters[id].index <= len
    /\ ret.op = "size_hint" =>
          /\ ret.res.tag = "Hint"
          /\ ret.res.lo <= len
    /\ ret.op = "next" =>
          /\ ret.res = None => Len(iters[ret.it].seen) = len
          /\ ret.res # None =>
                /\ ret.res.tag = "Some"
                /\ ret.res.val = pushed[Len(iters[ret.it].seen)]
                /\ ret.arg = Len(iters[ret.it].seen) - 1

\* no push is in progress
AllIdle == \A p \in Procs : race.procs[p].pc = "idle"

\* the layout invariants hold and no item is lost: the list holds the items
\* the pushes stored, in order, each at the index get finds it at
LayoutSound ==
    /\ check_invariants
    /\ len = fill_sum(Len(chunks_slice))
    /\ contents = pushed
    /\ \A k \in 1 .. Len(pushed) :
           /\ get(k - 1).tag = "Some"
           /\ get(k - 1).val = pushed[k]

\* C22: when every push runs as one indivisible step (no push begins while
\* another is in progress), no state between pushes violates the layout
\* invariants or has lost an item; with two pushes interleaved at the
\* statements of push such a state is reachable (C22_Witness).
C22_IndivisiblePushesSound ==
    (AllIdle /\ ~ race.overlapped) => LayoutSound

\* C22 witness: two pushes that both read the length 15 have both inserted
\* into chunk 0 and returned: the chunk has grown beyond its 16 slots and
\* the chunk count, the chunk fullness and the last chunk's length are wrong
C22_Witness ==
    /\ AllIdle /\ race.overlapped
    /\ ret.op = "push"
    /\ len = FIRST_CHUNK_SIZE + 1
    /\ Len(chunks_slice) = 1
    /\ chunk_len(0) > chunk_size(0)
    /\ ~ correct_number_of_chunks
    /\ ~ check_invariants

\* a step in which push ended by the failure of an allocation: the list is
\* as it was before the push, and its layout invariants hold
FailedPushFrame ==
    (race.procs["p1"].pc = "computed" /\ race'.procs["p1"].pc = "idle") =>
        /\ ret'.op = "push" /\ ret'.res = Panic
        /\ len' = len
        /\ chunks' = chunks
        /\ pushed' = pushed /\ refs' = refs
        /\ len' = race.procs["p1"].new_index
        /\ LayoutSound'

\* the length never counts an item that is not stored: it is set after the
\* insertion
LenAfterStore ==
    /\ len <= fill_sum(Len(chunks_slice))
    /\ len = fill_sum(Len(chunks_slice))
           - (IF race.procs["p1"].pc = "stored" THEN 1 ELSE 0)

\* C24: when a push needs a new chunk and the allocation of the chunk, or
\* the growth of the chunk directory, fails, the list is left as it was
\* before the push (same length, chunks and contents) with its layout
\* invariants holding; the length is incremented only after the item is
\* stored.
C24_FailedPushChangesNothing ==
    /\ [](LenAfterStore /\ (AllIdle => LayoutSound))
    /\ [][FailedPushFrame]_vars

\* C24 witness: with four full chunks the push of the 241st item failed to
\* grow the full directory, the buffer of the new chunk was released, and
\* the list still has its 240 items
C24_Witness ==
    /\ ret.op = "push" /\ ret.res = Panic
    /\ AllIdle
    /\ len = chunk_start(4) /\ Len(chunks_slice) = 4
    /\ Len(chunks_slice) = chunks.cap
    /\ (heap.next - 1) \in heap.freed
    /\ contents = pushed

====
